---- MODULE Spec2Model ----
(***************************************************************************)
(* Model of the numerical-integration engine of src/src/main.rs:           *)
(* calculate_accumulated_sum_on_range, calculate_integral_async and         *)
(* calculate_integral.                                                     *)
(*                                                                         *)
(* f64 is modelled as a binary floating-point format with round-to-nearest *)
(* ties-to-even, PRECISION significant bits (53 in f64) and gradual        *)
(* underflow at 2^-FRAC_BITS (2^-1074 in f64), plus +-inf and NaN, which   *)
(* the code produces by dividing by samples = 0.  A finite value is held   *)
(* as an integer number of units of 2^-FRAC_BITS.  Overflow to infinity is *)
(* not modelled (the inputs are far from the largest finite value).        *)
(*                                                                         *)
(* The thread count, the two sample thresholds and the precision are       *)
(* scaled down together, keeping the source's order                        *)
(*   THREADS_COUNT < ASYNC_THRESHOLD_SAMPLES_COUNT < MAX_SAMPLES_COUNT     *)
(*   < 2^PRECISION.                                                        *)
(***************************************************************************)
EXTENDS Integers, Sequences, FiniteSets

\* main.rs:63  const THREADS_COUNT: i32 = 32 (scaled)
THREADS_COUNT == 3
\* main.rs:106 const ASYNC_THRESHOLD_SAMPLES_COUNT: u64 = 10_000 (scaled)
ASYNC_THRESHOLD_SAMPLES_COUNT == 6
\* main.rs:105 const MAX_SAMPLES_COUNT: u64 = 1_000_000_000 (scaled)
MAX_SAMPLES_COUNT == 8
\* significant bits of the floating-point format (53 in f64, scaled)
PRECISION == 5
\* the smallest positive value of the format is 2^-FRAC_BITS
FRAC_BITS == 8

Unit == 2 ^ FRAC_BITS

(***************************************************************************)
(* Floating-point values and arithmetic (Rust f64: IEEE 754 binary,        *)
(* round-to-nearest ties-to-even).                                         *)
(***************************************************************************)
Fin(v) == [k |-> "fin", v |-> v]
NaN == [k |-> "nan", v |-> 0]
Inf(s) == [k |-> "inf", v |-> s]

Abs(x) == IF x < 0 THEN -x ELSE x
Sgn(x) == IF x < 0 THEN -1 ELSE IF x > 0 THEN 1 ELSE 0

\* n / d (n >= 0, d > 0) rounded to the nearest integer, ties to even
RoundHalfEven(n, d) ==
    LET q == n \div d
        r == n % d
    IN  IF 2 * r > d \/ (2 * r = d /\ q % 2 = 1) THEN q + 1 ELSE q

\* the exponent of the binade of q >= 0: the least e >= 0 with q < 2^(PRECISION+e)
RECURSIVE Binade(_, _)
Binade(q, e) == IF q < 2 ^ (PRECISION + e) THEN e ELSE Binade(q, e + 1)

\* the rational n / d (d > 0), in units of 2^-FRAC_BITS, rounded to the format
RoundRat(n, d) ==
    LET a == Abs(n)
        s == 2 ^ Binade(a \div d, 0)
    IN  Sgn(n) * s * RoundHalfEven(a, d * s)

FAdd(x, y) ==
    IF x.k = "nan" \/ y.k = "nan" THEN NaN
    ELSE IF x.k = "inf" THEN (IF y.k = "inf" /\ y.v # x.v THEN NaN ELSE x)
    ELSE IF y.k = "inf" THEN y
    ELSE Fin(RoundRat(x.v + y.v, 1))

FNeg(x) == IF x.k = "nan" THEN NaN ELSE [x EXCEPT !.v = -x.v]

FSub(x, y) == FAdd(x, FNeg(y))

FMul(x, y) ==
    IF x.k = "nan" \/ y.k = "nan" THEN NaN
    ELSE IF x.k = "inf" \/ y.k = "inf"
         THEN (IF x.v = 0 \/ y.v = 0 THEN NaN ELSE Inf(Sgn(x.v) * Sgn(y.v)))
    ELSE Fin(RoundRat(x.v * y.v, Unit))

FDiv(x, y) ==
    IF x.k = "nan" \/ y.k = "nan" THEN NaN
    ELSE IF x.k = "inf" THEN (IF y.k = "inf" THEN NaN
                              ELSE Inf(x.v * (IF y.v < 0 THEN -1 ELSE 1)))
    ELSE IF y.k = "inf" THEN Fin(0)
    ELSE IF y.v = 0 THEN (IF x.v = 0 THEN NaN ELSE Inf(Sgn(x.v)))
    ELSE Fin(RoundRat(Sgn(y.v) * x.v * Unit, Abs(y.v)))

\* x < y (false when either is NaN)
FLt(x, y) ==
    IF x.k = "nan" \/ y.k = "nan" THEN FALSE
    ELSE IF x.k = "inf" THEN x.v < 0 /\ ~(y.k = "inf" /\ y.v < 0)
    ELSE IF y.k = "inf" THEN y.v > 0
    ELSE x.v < y.v

FGt(x, y) == FLt(y, x)

\* `n as f64`
FromInt(n) == Fin(RoundRat(n * Unit, 1))

Zero == Fin(0)

(***************************************************************************)
(* The integrand f: fn(f64) -> f64, a parameter of the engine.  The model   *)
(* passes the identity f(x) = x, which shows both which points f is called *)
(* with and how their values add up.                                       *)
(***************************************************************************)
Integrands == {"x"}

Apply(g, x) == CASE g = "x" -> x

(***************************************************************************)
(* main.rs:48-61  calculate_accumulated_sum_on_range.                      *)
(* The loop `while i + step < upper_bound { local_sum += f(i + step/2.0);  *)
(* i += step; }` from the state (i, local_sum) after `evals` iterations.   *)
(* The condition reads i alone, so an iteration that leaves i unchanged    *)
(* (i + step rounds back to i) repeats for ever: term = FALSE.             *)
(***************************************************************************)
RECURSIVE SumLoop(_, _, _, _, _, _, _)
SumLoop(g, i, upper, step, sum, evals, pts) ==
    LET next == FAdd(i, step)
        point == FAdd(i, FDiv(step, FromInt(2)))
    IN  IF ~FLt(next, upper)
        THEN [sum |-> sum, evals |-> evals, pts |-> pts, term |-> TRUE]
        ELSE IF next = i
        THEN [sum |-> sum, evals |-> evals, pts |-> pts, term |-> FALSE]
        ELSE SumLoop(g, next, upper, step, FAdd(sum, Apply(g, point)),
                     evals + 1, pts \cup {point})

\* sum: the value returned; evals: the number of calls of f; pts: the
\* arguments f was called with; term: whether the loop terminates
calculate_accumulated_sum_on_range(g, lower, upper, step) ==
    SumLoop(g, lower, upper, step, Zero, 0, {})

(***************************************************************************)
(* The checks at the head of the two entry points.                         *)
(* The error reasons are named as the specification names them:            *)
(* main.rs:72,115 -> "InvalidBounds", main.rs:118 -> "SampleCountExceeded" *)
(***************************************************************************)
\* main.rs:71-73
calculate_integral_async_route(lower, upper, n) ==
    IF FGt(lower, upper) THEN "InvalidBounds" ELSE "async"

\* mutants of calculate_integral_route: the sample count checked before the
\* bounds; `>=` for `>` at the maximum; `>=` for `>` at the threshold
route_samples_checked_first(lower, upper, n) ==
    IF n > MAX_SAMPLES_COUNT THEN "SampleCountExceeded"
    ELSE IF FGt(lower, upper) THEN "InvalidBounds"
    ELSE IF n > ASYNC_THRESHOLD_SAMPLES_COUNT
         THEN calculate_integral_async_route(lower, upper, n)
    ELSE "seq"

route_maximum_inclusive(lower, upper, n) ==
    IF FGt(lower, upper) THEN "InvalidBounds"
    ELSE IF n >= MAX_SAMPLES_COUNT THEN "SampleCountExceeded"
    ELSE IF n > ASYNC_THRESHOLD_SAMPLES_COUNT
         THEN calculate_integral_async_route(lower, upper, n)
    ELSE "seq"

route_threshold_inclusive(lower, upper, n) ==
    IF FGt(lower, upper) THEN "InvalidBounds"
    ELSE IF n > MAX_SAMPLES_COUNT THEN "SampleCountExceeded"
    ELSE IF n >= ASYNC_THRESHOLD_SAMPLES_COUNT
         THEN calculate_integral_async_route(lower, upper, n)
    ELSE "seq"

\* main.rs:114-122
calculate_integral_route(lower, upper, n) ==
    IF FGt(lower, upper) THEN "InvalidBounds"
    ELSE IF n > MAX_SAMPLES_COUNT THEN "SampleCountExceeded"
    ELSE IF n > ASYNC_THRESHOLD_SAMPLES_COUNT
         THEN calculate_integral_async_route(lower, upper, n)
    ELSE "seq"

\* main.rs:80  lower_bound + current_sample as f64 * range / threads_count as f64
current_lower_bound(lower, range, k) ==
    FAdd(lower, FDiv(FMul(FromInt(k), range), FromInt(THREADS_COUNT)))

\* mutant of current_upper_bound: every sub-interval runs to the end of the
\* whole interval
upper_bound_of_whole_interval(lower, range, k) == FAdd(lower, range)

\* mutant of current_upper_bound: the width range / threads_count added to
\* the sub-interval's lower boundary
upper_bound_by_width(lower, range, k) ==
    FAdd(FAdd(lower, FDiv(FMul(FromInt(k), range), FromInt(THREADS_COUNT))),
         FDiv(range, FromInt(THREADS_COUNT)))

\* main.rs:81  lower_bound + (current_sample + 1) as f64 * range / threads_count as f64
current_upper_bound(lower, range, k) ==
    FAdd(lower, FDiv(FMul(FromInt(k + 1), range), FromInt(THREADS_COUNT)))

(***************************************************************************)
(* State.                                                                  *)
(***************************************************************************)
VARIABLES
    pc,               \* the caller's position: idle, seq, spawn, join, read, done
    entry,            \* the function the caller called
    f,                \* the integrand passed
    lower_bound, upper_bound, samples,   \* the arguments
    current_sample,   \* main.rs:76, the spawn loop's counter
    handles,          \* main.rs:75, the join handles, in spawn order
    joined,           \* how many handles the loop of main.rs:97 has joined
    wpc,              \* each thread's position: none, run, lock, crit, done
    wlo, whi,         \* the bounds each thread's closure captured
    local_sum,        \* main.rs:84, each thread's local sum
    tmp,              \* the accumulator value a thread read for its +=
    mutex,            \* the threads holding the Mutex of main.rs:78
    accumulated_sum,  \* main.rs:78, the value inside the Mutex
    result,           \* what the call returned
    evals,            \* calls of f made by each thread
    seq_evals,        \* calls of f made by the sequential path
    seq_calls,        \* calls of calculate_accumulated_sum_on_range by main.rs:124
    merged            \* the threads that have added their local sum, in order

vars == <<pc, entry, f, lower_bound, upper_bound, samples, current_sample,
          handles, joined, wpc, wlo, whi, local_sum, tmp, mutex,
          accumulated_sum, result, evals, seq_evals, seq_calls, merged>>

Workers == 0 .. THREADS_COUNT - 1

\* the arguments a caller passes: bounds parsed as f64, samples parsed as u64
BoundValues == {FromInt(x) : x \in {0, 1, 24, 32, 34}}
SampleValues == 0 .. MAX_SAMPLES_COUNT + 1

NoResult == [kind |-> "none", val |-> Zero, reason |-> ""]
Ok(v) == [kind |-> "ok", val |-> v, reason |-> ""]
Err(r) == [kind |-> "err", val |-> Zero, reason |-> r]

Init ==
    /\ pc = "idle"
    /\ entry = "none"
    /\ f = "x"
    /\ lower_bound = Zero
    /\ upper_bound = Zero
    /\ samples = 0
    /\ current_sample = 0
    /\ handles = <<>>
    /\ joined = 0
    /\ wpc = [k \in Workers |-> "none"]
    /\ wlo = [k \in Workers |-> Zero]
    /\ whi = [k \in Workers |-> Zero]
    /\ local_sum = [k \in Workers |-> Zero]
    /\ tmp = [k \in Workers |-> Zero]
    /\ mutex = {}
    /\ accumulated_sum = Zero
    /\ result = NoResult
    /\ evals = [k \in Workers |-> 0]
    /\ seq_evals = 0
    /\ seq_calls = 0
    /\ merged = <<>>

(***************************************************************************)
(* The caller calls calculate_integral (main.rs:181) or                    *)
(* calculate_integral_async (main.rs:193); the head of the function runs   *)
(* up to its first return, the sequential summation or the spawn loop.     *)
(***************************************************************************)
Call(e, g, lower, upper, n) ==
    /\ pc = "idle"
    /\ entry' = e
    /\ f' = g
    /\ lower_bound' = lower
    /\ upper_bound' = upper
    /\ samples' = n
    /\ LET route == IF e = "calculate_integral"
                    THEN calculate_integral_route(lower, upper, n)
                    ELSE calculate_integral_async_route(lower, upper, n)
       IN  /\ pc' = CASE route = "seq" -> "seq"
                      [] route = "async" -> "spawn"
                      [] OTHER -> "done"
           /\ result' = IF route \in {"seq", "async"} THEN NoResult ELSE Err(route)
    /\ UNCHANGED <<current_sample, handles, joined, wpc, wlo, whi, local_sum,
                   tmp, mutex, accumulated_sum, evals, seq_evals, seq_calls,
                   merged>>

\* main.rs:123-131  the sequential path
SeqSum ==
    /\ pc = "seq"
    /\ LET step == FDiv(FSub(upper_bound, lower_bound), FromInt(samples))
           r == calculate_accumulated_sum_on_range(f, lower_bound, upper_bound, step)
       IN  /\ r.term
           /\ result' = Ok(FDiv(r.sum, FromInt(samples)))
           /\ seq_evals' = r.evals
    /\ seq_calls' = seq_calls + 1
    /\ pc' = "done"
    /\ UNCHANGED <<entry, f, lower_bound, upper_bound, samples, current_sample,
                   handles, joined, wpc, wlo, whi, local_sum, tmp, mutex,
                   accumulated_sum, evals, merged>>

\* main.rs:79-94  one iteration of the spawn loop
Spawn ==
    /\ pc = "spawn"
    /\ current_sample < THREADS_COUNT
    /\ LET range == FSub(upper_bound, lower_bound)
           k == current_sample
       IN  /\ wlo' = [wlo EXCEPT ![k] = current_lower_bound(lower_bound, range, k)]
           /\ whi' = [whi EXCEPT ![k] = current_upper_bound(lower_bound, range, k)]
           /\ wpc' = [wpc EXCEPT ![k] = "run"]
           /\ handles' = Append(handles, k)
    /\ current_sample' = current_sample + 1
    /\ pc' = IF current_sample + 1 < THREADS_COUNT THEN "spawn" ELSE "join"
    /\ UNCHANGED <<entry, f, lower_bound, upper_bound, samples, joined,
                   local_sum, tmp, mutex, accumulated_sum, result, evals,
                   seq_evals, seq_calls, merged>>

\* main.rs:84-89  a thread computes its local sum
WorkerSum(k) ==
    /\ wpc[k] = "run"
    /\ LET range == FSub(upper_bound, lower_bound)
           r == calculate_accumulated_sum_on_range(
                    f, wlo[k], whi[k], FDiv(range, FromInt(samples)))
       IN  /\ r.term
           /\ local_sum' = [local_sum EXCEPT ![k] = r.sum]
           /\ evals' = [evals EXCEPT ![k] = r.evals]
    /\ wpc' = [wpc EXCEPT ![k] = "lock"]
    /\ UNCHANGED <<pc, entry, f, lower_bound, upper_bound, samples,
                   current_sample, handles, joined, wlo, whi, tmp, mutex,
                   accumulated_sum, result, seq_evals, seq_calls, merged>>

\* mutant of lock_available: the lock is taken whoever holds it
lock_always_available(holders) == TRUE

\* whether a thread may take the Mutex: it is held by no one
lock_available(holders) == holders = {}

\* main.rs:90  lock().unwrap(), and the read of the `+=`
WorkerLock(k) ==
    /\ wpc[k] = "lock"
    /\ lock_available(mutex)
    /\ mutex' = mutex \cup {k}
    /\ tmp' = [tmp EXCEPT ![k] = accumulated_sum]
    /\ wpc' = [wpc EXCEPT ![k] = "crit"]
    /\ UNCHANGED <<pc, entry, f, lower_bound, upper_bound, samples,
                   current_sample, handles, joined, wlo, whi, local_sum,
                   accumulated_sum, result, evals, seq_evals, seq_calls, merged>>

\* main.rs:90  the write of the `+=`, and the guard dropped; the thread ends
WorkerAdd(k) ==
    /\ wpc[k] = "crit"
    /\ accumulated_sum' = FAdd(tmp[k], local_sum[k])
    /\ mutex' = mutex \ {k}
    /\ merged' = Append(merged, k)
    /\ wpc' = [wpc EXCEPT ![k] = "done"]
    /\ UNCHANGED <<pc, entry, f, lower_bound, upper_bound, samples,
                   current_sample, handles, joined, wlo, whi, local_sum, tmp,
                   result, evals, seq_evals, seq_calls>>

\* mutant of join_returns: join returns whatever the thread is doing
join_returns_at_once(position) == TRUE

\* whether handle.join() returns: the thread has ended
join_returns(position) == position = "done"

\* main.rs:97-99  one iteration of the join loop
Join ==
    /\ pc = "join"
    /\ joined < Len(handles)
    /\ join_returns(wpc[handles[joined + 1]])
    /\ joined' = joined + 1
    /\ pc' = IF joined + 1 < Len(handles) THEN "join" ELSE "read"
    /\ UNCHANGED <<entry, f, lower_bound, upper_bound, samples, current_sample,
                   handles, wpc, wlo, whi, local_sum, tmp, mutex,
                   accumulated_sum, result, evals, seq_evals, seq_calls, merged>>

\* main.rs:101-102  the accumulator is read under the lock and divided
Read ==
    /\ pc = "read"
    /\ lock_available(mutex)
    /\ result' = Ok(FDiv(accumulated_sum, FromInt(samples)))
    /\ pc' = "done"
    /\ UNCHANGED <<entry, f, lower_bound, upper_bound, samples, current_sample,
                   handles, joined, wpc, wlo, whi, local_sum, tmp, mutex,
                   accumulated_sum, evals, seq_evals, seq_calls, merged>>

Entries == {"calculate_integral", "calculate_integral_async"}

Next ==
    \/ \E e \in Entries, g \in Integrands, lower \in BoundValues,
          upper \in BoundValues, n \in SampleValues : Call(e, g, lower, upper, n)
    \/ SeqSum
    \/ Spawn
    \/ \E k \in Workers : WorkerSum(k)
    \/ \E k \in Workers : WorkerLock(k)
    \/ \E k \in Workers : WorkerAdd(k)
    \/ Join
    \/ Read

Spec == Init /\ [][Next]_vars

(***************************************************************************)
(* Properties.                                                             *)
(***************************************************************************)
NothingStarted ==
    /\ current_sample = 0
    /\ handles = <<>>
    /\ \A k \in Workers : wpc[k] = "none" /\ evals[k] = 0
    /\ mutex = {}
    /\ accumulated_sum = Zero
    /\ merged = <<>>

\* C1: once called with lower_bound > upper_bound, either entry point has
\* returned InvalidBounds, whatever samples is (also above the maximum), and
\* no thread was spawned, f was never called and no accumulator was written.
C1_InvalidBoundsFirst ==
    (pc # "idle" /\ FGt(lower_bound, upper_bound)) =>
        /\ pc = "done"
        /\ result = Err("InvalidBounds")
        /\ NothingStarted
        /\ seq_calls = 0
        /\ seq_evals = 0

C1_Witness ==
    /\ pc = "done"
    /\ entry = "calculate_integral"
    /\ FGt(lower_bound, upper_bound)
    /\ samples > MAX_SAMPLES_COUNT
    /\ result = Err("InvalidBounds")

\* C2: calculate_integral called with lower_bound <= upper_bound and samples
\* above the maximum has returned SampleCountExceeded with no thread spawned;
\* called with samples equal to the maximum it returns no error.
C2_SampleCountExceeded ==
    (pc # "idle" /\ entry = "calculate_integral"
        /\ ~FGt(lower_bound, upper_bound)) =>
        /\ samples > MAX_SAMPLES_COUNT =>
              /\ pc = "done"
              /\ result = Err("SampleCountExceeded")
              /\ NothingStarted
              /\ seq_calls = 0
        /\ samples <= MAX_SAMPLES_COUNT => result.kind # "err"

C2_Witness ==
    /\ pc = "done"
    /\ entry = "calculate_integral"
    /\ ~FGt(lower_bound, upper_bound)
    /\ samples = MAX_SAMPLES_COUNT + 1
    /\ result = Err("SampleCountExceeded")

\* C3: an accepted call of calculate_integral with samples above the
\* threshold runs the parallel engine only and returns its result; with
\* samples at or below the threshold it spawns no thread and returns
\* accumulated_sum / samples of one summation over the whole interval with
\* step = (upper_bound - lower_bound) / samples.
C3_Dispatch ==
    (pc # "idle" /\ entry = "calculate_integral" /\ result.kind # "err") =>
        IF samples > ASYNC_THRESHOLD_SAMPLES_COUNT
        THEN /\ pc \in {"spawn", "join", "read", "done"}
             /\ seq_calls = 0
             /\ seq_evals = 0
             /\ pc = "done" =>
                   /\ Len(handles) = THREADS_COUNT
                   /\ result = Ok(FDiv(accumulated_sum, FromInt(samples)))
        ELSE /\ pc \in {"seq", "done"}
             /\ NothingStarted
             /\ pc = "done" =>
                   LET step == FDiv(FSub(upper_bound, lower_bound), FromInt(samples))
                       r == calculate_accumulated_sum_on_range(
                                f, lower_bound, upper_bound, step)
                   IN  /\ seq_calls = 1
                       /\ seq_evals = r.evals
                       /\ result = Ok(FDiv(r.sum, FromInt(samples)))

C3_Witness ==
    /\ pc = "done"
    /\ entry = "calculate_integral"
    /\ samples = ASYNC_THRESHOLD_SAMPLES_COUNT
    /\ FLt(lower_bound, upper_bound)
    /\ result.kind = "ok"
    /\ seq_evals > 0

\* C5: at most one thread is inside the read-modify-write of the accumulator:
\* the threads inside it are exactly the holders of the mutex, of which there
\* is at most one, and the value such a thread read is still the
\* accumulator's value (no other thread wrote in between).
C5_MutualExclusion ==
    /\ Cardinality(mutex) <= 1
    /\ \A k \in Workers : (wpc[k] = "crit") <=> (k \in mutex)
    /\ \A k \in Workers : wpc[k] = "crit" => tmp[k] = accumulated_sum

C5_Witness ==
    \E k, j \in Workers :
        /\ wpc[k] = "crit"
        /\ wpc[j] = "lock"
        /\ merged # <<>>

\* the local sums added to 0.0 one after the other, in the order of `order`
RECURSIVE Fold(_)
Fold(order) ==
    IF order = <<>> THEN Zero
    ELSE FAdd(Fold(SubSeq(order, 1, Len(order) - 1)), local_sum[order[Len(order)]])

AsyncReturned == pc = "done" /\ result.kind = "ok" /\ Len(handles) = THREADS_COUNT

\* C4 (as amended): when calculate_integral_async reads the accumulator every
\* one of the T threads has ended and has added its local sum exactly once,
\* and the value read is the local sums added to 0.0 one at a time in the
\* order in which the threads merged (no update lost or duplicated).
C4_AllMergedOnce ==
    (pc \in {"read", "done"} /\ Len(handles) = THREADS_COUNT) =>
        /\ \A k \in Workers : wpc[k] = "done"
        /\ Len(merged) = THREADS_COUNT
        /\ \A k \in Workers : \E i \in 1 .. Len(merged) : merged[i] = k
        /\ accumulated_sum = Fold(merged)
        /\ pc = "done" => result = Ok(FDiv(Fold(merged), FromInt(samples)))

C4_Witness ==
    /\ AsyncReturned
    /\ merged # handles
    /\ \A k \in Workers : evals[k] > 0

\* C4 (as stated): the value read does not depend on the order in which the
\* threads merged: it is the same as if they had merged in spawn order.
C4_OrderIndependent ==
    AsyncReturned => accumulated_sum = Fold(handles)

Range == FSub(upper_bound, lower_bound)

SeqRun ==
    calculate_accumulated_sum_on_range(
        f, lower_bound, upper_bound, FDiv(Range, FromInt(samples)))

RECURSIVE SumEvals(_)
SumEvals(k) == IF k < 0 THEN 0 ELSE evals[k] + SumEvals(k - 1)

TotalEvals == SumEvals(THREADS_COUNT - 1)

\* the arguments the threads called f with
ParPoints ==
    UNION {calculate_accumulated_sum_on_range(
               f, wlo[k], whi[k], FDiv(Range, FromInt(samples))).pts : k \in Workers}

(***************************************************************************)
(* The calls on which no operation of the engine rounds: the range, the    *)
(* step, the sub-interval boundaries and every position and midpoint the   *)
(* loops compute are values of the format.  On these calls the model's     *)
(* arithmetic is exact arithmetic.                                         *)
(***************************************************************************)
Representable(v) == RoundRat(v, 1) = v

ExactStep ==
    /\ samples >= 1
    /\ Representable(samples * Unit)
    /\ Representable(upper_bound.v - lower_bound.v)
    /\ (upper_bound.v - lower_bound.v) % (2 * samples) = 0
    /\ Representable((upper_bound.v - lower_bound.v) \div samples)

\* the loop from `lower` to `upper`: the positions it computes and their midpoints
ExactLoop(lower, upper) ==
    LET s == (upper_bound.v - lower_bound.v) \div samples
    IN  \A j \in 0 .. samples :
            lower + j * s <= upper + s =>
                /\ Representable(lower + j * s)
                /\ Representable(lower + j * s + s \div 2)

ExactPartition ==
    LET r == upper_bound.v - lower_bound.v
    IN  \A k \in 0 .. THREADS_COUNT :
            /\ Representable(k * Unit)
            /\ Representable(k * r)
            /\ (k * r) % THREADS_COUNT = 0
            /\ Representable((k * r) \div THREADS_COUNT)
            /\ Representable(lower_bound.v + (k * r) \div THREADS_COUNT)

ExactSeq == ExactStep /\ ExactLoop(lower_bound.v, upper_bound.v)

ExactRun ==
    /\ ExactSeq
    /\ ExactPartition
    /\ \A k \in Workers : ExactLoop(wlo[k].v, whi[k].v)

\* C7: for 1 <= samples <= maximum the parallel path calls f at the same
\* points as the sequential path on the same arguments when both are computed
\* in exact arithmetic (on the calls on which no operation rounds; stated
\* for the calls with at least two steps per thread).
C7_PathsAgree ==
    (AsyncReturned /\ samples >= 2 * THREADS_COUNT
        /\ samples <= MAX_SAMPLES_COUNT /\ ExactRun) =>
        /\ TotalEvals = SeqRun.evals
        /\ ParPoints = SeqRun.pts

\* C8: a call that returned a value had samples >= 1.
C8_SamplesPositive ==
    (pc = "done" /\ result.kind = "ok") => samples >= 1

\* C9: calculate_accumulated_sum_on_range over a < b with step > 0 terminates
\* and calls f at no point >= b; over the whole interval with
\* step = (b - a) / n, where no position rounds, it calls f exactly n - 1
\* times.
C9_RangeSum ==
    /\ (pc = "seq" /\ FLt(lower_bound, upper_bound) /\ samples >= 1
            /\ FGt(FDiv(Range, FromInt(samples)), Zero)) =>
          /\ SeqRun.term
          /\ \A p \in SeqRun.pts : FLt(p, upper_bound)
          /\ ExactSeq => SeqRun.evals = samples - 1
    /\ \A k \in Workers :
          (wpc[k] = "run" /\ FLt(wlo[k], whi[k])
              /\ FGt(FDiv(Range, FromInt(samples)), Zero)) =>
             LET r == calculate_accumulated_sum_on_range(
                          f, wlo[k], whi[k], FDiv(Range, FromInt(samples)))
             IN  r.term /\ \A p \in r.pts : FLt(p, whi[k])

\* C10 (as stated): the threads together call f about T times as often as
\* the sequential path does for the same arguments (between T-1 and T+1
\* times as often), also where no operation rounds and every thread has at
\* least two steps.
C10_TTimesTheEvaluations ==
    (AsyncReturned /\ samples >= 2 * THREADS_COUNT
        /\ samples <= MAX_SAMPLES_COUNT /\ ExactRun) =>
        /\ (THREADS_COUNT - 1) * SeqRun.evals <= TotalEvals
        /\ TotalEvals <= (THREADS_COUNT + 1) * SeqRun.evals

\* C10 (as amended): every thread steps by range / samples over its own
\* sub-interval only, so for 1 <= samples <= maximum the threads together call
\* f about as often as the sequential path does for the same arguments, at
\* most T times more, and not T times as often.
C10_AboutAsManyEvaluations ==
    (AsyncReturned /\ samples >= 1 /\ samples <= MAX_SAMPLES_COUNT /\ SeqRun.term) =>
        TotalEvals <= SeqRun.evals + THREADS_COUNT

C10_Witness ==
    /\ AsyncReturned
    /\ SeqRun.term
    /\ samples > 2 * THREADS_COUNT
    /\ \A k \in Workers : evals[k] > 0
    /\ TotalEvals < SeqRun.evals

====
